---- MODULE Spec2Model ----
(***************************************************************************)
(* MyNews (src/mynews/build.py): fetch a fixed registry of RSS/Atom feeds, *)
(* normalise every entry into an article record, sort the aggregate by     *)
(* recency, render one static HTML page and write it to index.html.        *)
(*                                                                         *)
(* Text is modelled as a sequence of tokens.  A token is one character     *)
(* ("<", "a", " ", ...) or one character reference ("&lt;", "&amp;", ...)  *)
(* standing for the characters that spell it.  len() of a text whose       *)
(* tokens are all single characters is the length of the sequence.         *)
(***************************************************************************)
EXTENDS Integers, Sequences, FiniteSets, TLC

\* ------------------------------------------------------------------ bounds

\* Most entries one feed returns in a run.
MaxEntries == 2

\* Longest raw summary (in tokens) handed to strip_html.
MaxMarkupLen == 3

\* Longest text (in characters) handed to truncate, and largest max_len.
MaxTextLen == 5
MaxLenArg == 3

\* Longest feed-supplied title, link and summary handed to generate_html.
MaxFieldLen == 1

\* ------------------------------------------------------------- the registry

\* truncate's default max_len.
DefaultMaxLen == 200

\* The feed registry.  The first three descriptors of the source, with
\* max_items scaled from 5, 10, 5 to 1, 2, 1 so that a feed of MaxEntries
\* entries can exceed its cap.
FEEDS ==
  << [name |-> <<"I","m","p","o","r","t"," ","A","I">>,
      slug |-> "import-ai", url |-> "https://importai.substack.com/feed",
      icon |-> "robot", color |-> "#6366f1", max_items |-> 1],
     [name |-> <<"S","i","m","o","n"," ","W","i","l","l","i","s","o","n">>,
      slug |-> "simon-willison", url |-> "https://simonwillison.net/atom/everything/",
      icon |-> "laptop", color |-> "#059669", max_items |-> 2],
     [name |-> <<"L","e","n","n","y","'","s"," ","N","e","w","s","l","e","t","t","e","r">>,
      slug |-> "lennys-newsletter", url |-> "https://www.lennysnewsletter.com/feed",
      icon |-> "chart", color |-> "#d97706", max_items |-> 1] >>

\* ------------------------------------------------------------ text helpers

Min(a, b) == IF a <= b THEN a ELSE b

\* What \s matches, among the tokens of the model.
IsSpace(c) == c \in {" ", "\n"}

\* Index of the first ">" of s at or after position 2, 0 when there is none.
TagEnd(s) ==
  LET closers == { j \in 2..Len(s) : s[j] = ">" }
  IN  IF closers = {} THEN 0
      ELSE CHOOSE j \in closers : \A k \in closers : j <= k

\* re.sub(r"<[^>]+>", "", text): leftmost non-overlapping matches removed.  A
\* match starts at "<", takes one or more tokens other than ">" and ends at the
\* first ">" after them.
RECURSIVE StripTags(_)
StripTags(s) ==
  IF s = <<>> THEN <<>>
  ELSE IF Head(s) = "<" /\ TagEnd(s) >= 3
       THEN StripTags(SubSeq(s, TagEnd(s) + 1, Len(s)))
       ELSE <<Head(s)>> \o StripTags(Tail(s))

\* html.unescape on one token: a character reference becomes its character.
UnescapeToken(c) ==
  CASE c = "&lt;"   -> "<"
    [] c = "&gt;"   -> ">"
    [] c = "&amp;"  -> "&"
    [] c = "&quot;" -> "\""
    [] c = "&#x27;" -> "'"
    [] OTHER        -> c

\* html.unescape: one pass over the text.
Unescape(s) == [i \in 1..Len(s) |-> UnescapeToken(s[i])]

\* re.sub(r"\s+", " ", text): every maximal run of whitespace becomes one space.
RECURSIVE CollapseSpace(_)
CollapseSpace(s) ==
  IF s = <<>> THEN <<>>
  ELSE IF IsSpace(Head(s))
       THEN IF Len(s) >= 2 /\ IsSpace(s[2])
            THEN CollapseSpace(Tail(s))
            ELSE <<" ">> \o CollapseSpace(Tail(s))
       ELSE <<Head(s)>> \o CollapseSpace(Tail(s))

\* str.strip(): leading and trailing whitespace removed.
RECURSIVE Strip(_)
Strip(s) ==
  IF s = <<>> THEN <<>>
  ELSE IF IsSpace(Head(s)) THEN Strip(Tail(s))
  ELSE IF IsSpace(s[Len(s)]) THEN Strip(SubSeq(s, 1, Len(s) - 1))
  ELSE s

strip_html(text) == Strip(CollapseSpace(Unescape(StripTags(text))))

\* text.rsplit(" ", 1)[0]: the text before its last space, the whole text when
\* it holds no space.
RSplitHead(t) ==
  LET spaces == { j \in 1..Len(t) : t[j] = " " }
  IN  IF spaces = {} THEN t
      ELSE SubSeq(t, 1, (CHOOSE j \in spaces : \A k \in spaces : k <= j) - 1)

\* truncate cutting at max_len without backing off to a space.
truncateHardCut(text, max_len) ==
  IF Len(text) <= max_len THEN text
  ELSE SubSeq(text, 1, max_len) \o <<".", ".", ".">>

truncate(text, max_len) ==
  IF Len(text) <= max_len THEN text
  ELSE RSplitHead(SubSeq(text, 1, max_len)) \o <<".", ".", ".">>

\* html.escape(s, quote=False) on one token: the quotes are left as they are.
EscapeTokenNoQuote(c) ==
  CASE c = "&"      -> <<"&amp;">>
    [] c = "<"      -> <<"&lt;">>
    [] c = ">"      -> <<"&gt;">>
    [] c = "&lt;"   -> <<"&amp;", "l", "t", ";">>
    [] c = "&gt;"   -> <<"&amp;", "g", "t", ";">>
    [] c = "&amp;"  -> <<"&amp;", "a", "m", "p", ";">>
    [] OTHER        -> <<c>>

\* html.escape(s, quote=True) on one token; a character reference in the input
\* is the characters "&", ..., ";" and only its "&" is replaced.
EscapeToken(c) ==
  CASE c = "&"      -> <<"&amp;">>
    [] c = "<"      -> <<"&lt;">>
    [] c = ">"      -> <<"&gt;">>
    [] c = "\""     -> <<"&quot;">>
    [] c = "'"      -> <<"&#x27;">>
    [] c = "&lt;"   -> <<"&amp;", "l", "t", ";">>
    [] c = "&gt;"   -> <<"&amp;", "g", "t", ";">>
    [] c = "&amp;"  -> <<"&amp;", "a", "m", "p", ";">>
    [] OTHER        -> <<c>>

RECURSIVE escape(_)
escape(s) ==
  IF s = <<>> THEN <<>> ELSE EscapeToken(Head(s)) \o escape(Tail(s))

\* ------------------------------------------------------------ feed entries

\* A parsed entry is a dict: a function from the keys it carries.  entry.get(k)
\* is None for a key the entry lacks, entry.get(k, d) is d.
NoKeys == <<>>

Has(entry, key) == key \in DOMAIN entry

Get(entry, key, default) == IF Has(entry, key) THEN entry[key] ELSE default

\* One optional key: absent, or present with one of the values.
Optional(key, values) == {NoKeys} \cup { key :> v : v \in values }

\* A parsed time is the day it names, counted from 1970-01-01 (time of day
\* 00:00:00, local time taken as UTC).  Day -1 is 1969-12-31.
PublishedDays == {2}
UpdatedDays == {-1}

\* The entries a feed of the pipeline can carry: every combination of a
\* published and an updated time; title, link and summary absent.
EntrySet ==
  { p @@ u : p \in Optional("published_parsed", PublishedDays),
             u \in Optional("updated_parsed", UpdatedDays) }

RECURSIVE SeqsUpTo(_, _)
SeqsUpTo(S, n) ==
  IF n = 0 THEN {<<>>}
  ELSE LET shorter == SeqsUpTo(S, n - 1)
       IN  shorter \cup { Append(q, x) : q \in { r \in shorter : Len(r) = n - 1 }, x \in S }

\* parsed.entries of one fetch.
EntrySeqs == SeqsUpTo(EntrySet, MaxEntries)

\* What makes the try block of fetch_feed raise.
FetchErrors == {"URLError", "timeout", "parse error"}

\* dt.strftime("%Y-%m-%d"): the calendar day as text, one token per day.
Strftime(day) == <<ToString(day)>>

\* dt.timestamp(): seconds since the epoch.
Timestamp(day) == day * 86400

\* entry.get("published_parsed") or entry.get("updated_parsed") is truthy.
HasDate(entry) == Has(entry, "published_parsed") \/ Has(entry, "updated_parsed")

DateParsed(entry) ==
  IF Has(entry, "published_parsed") THEN entry["published_parsed"]
  ELSE entry["updated_parsed"]

\* The body of fetch_feed's loop: one article record from one entry.
Article(entry, feed_config) ==
  [ title        |-> Get(entry, "title", <<"U","n","t","i","t","l","e","d">>),
    link         |-> Get(entry, "link", <<"#">>),
    date         |-> IF HasDate(entry) THEN Strftime(DateParsed(entry)) ELSE <<>>,
    sort_key     |-> IF HasDate(entry) THEN Timestamp(DateParsed(entry)) ELSE 0,
    summary      |-> truncate(strip_html(Get(entry, "summary", <<>>)), DefaultMaxLen),
    source_name  |-> feed_config.name,
    source_slug  |-> feed_config.slug,
    source_icon  |-> feed_config.icon,
    source_color |-> feed_config.color ]

\* parsed.entries without the cap.
RetainedAll(entries, max_items) == entries

\* parsed.entries[: feed_config["max_items"]]
Retained(entries, max_items) == SubSeq(entries, 1, Min(max_items, Len(entries)))

\* fetch_feed after a successful fetch and parse: the articles of the retained
\* entries, in the feed's order.
Articles(entries, feed_config) ==
  LET kept == Retained(entries, feed_config.max_items)
  IN  [i \in 1..Len(kept) |-> Article(kept[i], feed_config)]

\* -------------------------------------------------------------- aggregation

\* The step of a sort that puts a before the elements of equal key.
InsertDescBeforeEqual(sorted, a) ==
  LET before == { j \in 1..Len(sorted) : sorted[j].sort_key > a.sort_key }
      p == Cardinality(before)
  IN  SubSeq(sorted, 1, p) \o <<a>> \o SubSeq(sorted, p + 1, Len(sorted))

\* One step of the stable descending sort: a goes after every element whose
\* key is greater than or equal to its own.
InsertDesc(sorted, a) ==
  LET before == { j \in 1..Len(sorted) : sorted[j].sort_key >= a.sort_key }
      p == Cardinality(before)
  IN  SubSeq(sorted, 1, p) \o <<a>> \o SubSeq(sorted, p + 1, Len(sorted))

RECURSIVE SortInto(_, _)
SortInto(sorted, rest) ==
  IF rest = <<>> THEN sorted
  ELSE SortInto(InsertDesc(sorted, Head(rest)), Tail(rest))

\* all_articles.sort(key=lambda a: a["sort_key"], reverse=True)
SortByRecency(articles) == SortInto(<<>>, articles)

\* ---------------------------------------------------------------- rendering

\* The filter buttons: "All", marked active, then one per feed of the registry.
FilterButtons ==
  <<[data_source |-> "all", active |-> TRUE, label |-> <<"A","l","l">>]>> \o
  [i \in 1..Len(FEEDS) |->
     [data_source |-> FEEDS[i].slug, active |-> FALSE,
      label |-> <<FEEDS[i].icon, " ">> \o FEEDS[i].name]]

\* One article card.
Card(a) ==
  [ tag         |-> "article",
    data_source |-> a.source_slug,
    color       |-> a.source_color,
    badge       |-> <<a.source_icon, " ">> \o escape(a.source_name),
    datetime    |-> a.date,
    href        |-> escape(a.link),
    title       |-> escape(a.title),
    summary     |-> escape(a.summary) ]

EmptyMessage == [tag |-> "p", class |-> "empty"]

\* generate_html(articles, updated_at): the document, by its parts.
generate_html(articles, updated_at) ==
  [ updated |-> updated_at,
    filters |-> FilterButtons,
    main    |-> IF articles = <<>> THEN <<EmptyMessage>>
                ELSE [i \in 1..Len(articles) |-> Card(articles[i])] ]

\* datetime.now().strftime("%Y-%m-%d %H:%M")
Clock == {"2026-01-01 00:00"}

\* ---------------------------------------------------------------- the state

VARIABLES
  pc,            \* main's position: "start", "fetch", "exit0", "exit1"
  feed_idx,      \* index in FEEDS of the next feed to fetch
  raw,           \* per fetched feed, what the network and the parser gave
  all_articles,  \* main's aggregate list
  stdout,        \* lines printed to standard output
  stderr,        \* lines printed to standard error
  index_html,    \* content of the output file
  exit_code,     \* the process's exit code once it has ended
  text,          \* argument of the text function under call
  max_len,       \* truncate's max_len argument
  result,        \* what the called text function returned
  call,          \* the text function called last, "none" before any call
  arg_articles,  \* argument of generate_html
  html_content,  \* what generate_html returned
  page           \* the written page open in a browser: its buttons and cards

mainVars == <<pc, feed_idx, raw, all_articles, stdout, stderr, index_html, exit_code>>

textVars == <<text, max_len, result, call>>

renderVars == <<arg_articles, html_content>>

pageVars == <<page>>

\* The output file before the run: whatever an earlier run left.
PriorContent == [prior |-> TRUE]

MainInit ==
  /\ pc = "start"
  /\ feed_idx = 1
  /\ raw = <<>>
  /\ all_articles = <<>>
  /\ stdout = <<>>
  /\ stderr = <<>>
  /\ index_html = PriorContent
  /\ exit_code = -1

\* main, line 391-392.
MainStart ==
  /\ pc = "start"
  /\ pc' = "fetch"
  /\ stdout' = Append(stdout, [line |-> "Fetching feeds..."])
  /\ UNCHANGED <<feed_idx, raw, all_articles, stderr, index_html, exit_code>>
  /\ UNCHANGED <<textVars, renderVars, pageVars>>

\* One iteration of main's loop whose fetch_feed call fetches and parses.
FetchFeedOk ==
  /\ pc = "fetch"
  /\ feed_idx <= Len(FEEDS)
  /\ \E entries \in EntrySeqs :
       LET feed_config == FEEDS[feed_idx]
           articles == Articles(entries, feed_config)
       IN  /\ raw' = Append(raw, [ok |-> TRUE, entries |-> entries])
           /\ all_articles' = all_articles \o articles
           /\ stdout' = stdout \o
                <<[line |-> "Fetching", name |-> feed_config.name],
                  [line |-> "Got", count |-> Len(articles)]>>
  /\ feed_idx' = feed_idx + 1
  /\ UNCHANGED <<pc, stderr, index_html, exit_code>>
  /\ UNCHANGED <<textVars, renderVars, pageVars>>

\* The iteration with the exception not caught: the run ends there.
FetchFeedFailedAborts ==
  /\ pc = "fetch"
  /\ feed_idx <= Len(FEEDS)
  /\ \E e \in FetchErrors :
       /\ raw' = Append(raw, [ok |-> FALSE, error |-> e])
       /\ stderr' = Append(stderr,
            [line |-> "Warning: Failed to fetch", name |-> FEEDS[feed_idx].name, error |-> e])
  /\ stdout' = Append(stdout, [line |-> "Fetching", name |-> FEEDS[feed_idx].name])
  /\ feed_idx' = feed_idx + 1
  /\ pc' = "exit1"
  /\ exit_code' = 1
  /\ UNCHANGED <<all_articles, index_html>>
  /\ UNCHANGED <<textVars, renderVars, pageVars>>

\* One iteration of main's loop whose fetch_feed call raises inside its try
\* block: the warning is printed and the feed gives no article.
FetchFeedFailed ==
  /\ pc = "fetch"
  /\ feed_idx <= Len(FEEDS)
  /\ \E e \in FetchErrors :
       LET feed_config == FEEDS[feed_idx]
       IN  /\ raw' = Append(raw, [ok |-> FALSE, error |-> e])
           /\ stderr' = Append(stderr,
                [line |-> "Warning: Failed to fetch", name |-> feed_config.name, error |-> e])
           /\ stdout' = stdout \o
                <<[line |-> "Fetching", name |-> feed_config.name],
                  [line |-> "Got", count |-> 0]>>
  /\ feed_idx' = feed_idx + 1
  /\ UNCHANGED <<pc, all_articles, index_html, exit_code>>
  /\ UNCHANGED <<textVars, renderVars, pageVars>>

\* main without the exit on an empty aggregate: the empty page is written.
MainEmptyWrites ==
  /\ pc = "fetch"
  /\ feed_idx > Len(FEEDS)
  /\ all_articles = <<>>
  /\ stderr' = Append(stderr, [line |-> "Error: No articles fetched from any source."])
  /\ \E updated_at \in Clock : index_html' = generate_html(all_articles, updated_at)
  /\ pc' = "exit0"
  /\ exit_code' = 0
  /\ UNCHANGED <<feed_idx, raw, all_articles, stdout>>
  /\ UNCHANGED <<textVars, renderVars, pageVars>>

\* main, lines 399-401: nothing was aggregated.
MainEmpty ==
  /\ pc = "fetch"
  /\ feed_idx > Len(FEEDS)
  /\ all_articles = <<>>
  /\ stderr' = Append(stderr, [line |-> "Error: No articles fetched from any source."])
  /\ pc' = "exit1"
  /\ exit_code' = 1
  /\ UNCHANGED <<feed_idx, raw, all_articles, stdout, index_html>>
  /\ UNCHANGED <<textVars, renderVars, pageVars>>

\* main, lines 403-412: sort, render, write, report.
MainWrite ==
  /\ pc = "fetch"
  /\ feed_idx > Len(FEEDS)
  /\ all_articles # <<>>
  /\ \E updated_at \in Clock :
       /\ all_articles' = SortByRecency(all_articles)
       /\ index_html' = generate_html(all_articles', updated_at)
  /\ stdout' = Append(stdout, [line |-> "Generated", path |-> "index.html",
                               count |-> Len(all_articles)])
  /\ pc' = "exit0"
  /\ exit_code' = 0
  /\ UNCHANGED <<feed_idx, raw, stderr>>
  /\ UNCHANGED <<textVars, renderVars, pageVars>>

\* ------------------------------------------------------- the text functions

\* The tokens of a raw feed summary: markup, whitespace, a letter and the
\* character references of the markup characters.
MarkupTokens == {"<", ">", " ", "\n", "a", "&lt;", "&gt;", "&amp;"}

\* The characters of a plain text.
PlainChars == {"a", "b", " "}

MarkupTexts == SeqsUpTo(MarkupTokens, MaxMarkupLen)

PlainTexts == SeqsUpTo(PlainChars, MaxTextLen)

\* Texts around the default max_len: a word, a space, a word; the space up to
\* MaxLenArg characters before the cut and the text up to MaxLenArg past it.
LongTexts ==
  { [i \in 1..(DefaultMaxLen - d) |-> "a"] \o <<" ">> \o [i \in 1..e |-> "b"] :
      d \in 0..MaxLenArg, e \in 0..MaxLenArg }

TextIdle ==
  /\ text = <<>>
  /\ max_len = DefaultMaxLen
  /\ result = <<>>
  /\ call = "none"

\* A raw summary, before any call.
TextInit ==
  /\ text \in MarkupTexts
  /\ max_len = DefaultMaxLen
  /\ result = <<>>
  /\ call = "none"

\* A plain text and a max_len, before any call.
TruncateInit ==
  /\ text \in PlainTexts \cup LongTexts
  /\ max_len \in 1..MaxLenArg \cup {DefaultMaxLen}
  /\ result = <<>>
  /\ call = "none"

\* strip_html(text)
CallStripHtml ==
  /\ call = "none"
  /\ result' = strip_html(text)
  /\ call' = "strip_html"
  /\ UNCHANGED <<text, max_len>>
  /\ UNCHANGED <<mainVars, renderVars, pageVars>>

\* strip_html applied to what strip_html returned.
CallStripHtmlAgain ==
  /\ call = "strip_html"
  /\ text' = result
  /\ result' = strip_html(result)
  /\ call' = "strip_html again"
  /\ UNCHANGED max_len
  /\ UNCHANGED <<mainVars, renderVars, pageVars>>

\* truncate(text, max_len)
CallTruncate ==
  /\ call = "none"
  /\ result' = truncate(text, max_len)
  /\ call' = "truncate"
  /\ UNCHANGED <<text, max_len>>
  /\ UNCHANGED <<mainVars, renderVars, pageVars>>

\* fetch_feed's loop body on an entry whose summary is the text: the summary of
\* the article record.
CallSummary ==
  /\ call = "none"
  /\ \E feed_config \in {FEEDS[1]} :
       result' = Article("summary" :> text, feed_config).summary
  /\ call' = "summary"
  /\ UNCHANGED <<text, max_len>>
  /\ UNCHANGED <<mainVars, renderVars, pageVars>>

\* ------------------------------------------------------------ the renderer

\* The characters of a feed-supplied title, link or summary: those html.escape
\* replaces, and a letter.
FieldChars == {"<", ">", "&", "\"", "'", "a"}

FieldTexts == SeqsUpTo(FieldChars, MaxFieldLen)

\* Entries with any combination of title, link and summary.
RichEntries ==
  { t @@ l @@ m : t \in Optional("title", FieldTexts),
                  l \in Optional("link", FieldTexts),
                  m \in Optional("summary", FieldTexts) }

RenderIdle ==
  /\ arg_articles = <<>>
  /\ html_content = [updated |-> "", filters |-> <<>>, main |-> <<>>]

\* The articles are what fetch_feed makes of at most one entry of one feed.
RenderInit ==
  /\ arg_articles \in {<<>>} \cup
       { Articles(<<entry>>, FEEDS[f]) : entry \in RichEntries, f \in 1..Len(FEEDS) }
  /\ html_content = [updated |-> "", filters |-> <<>>, main |-> <<>>]

CallGenerateHtml ==
  /\ html_content.updated = ""
  /\ \E updated_at \in Clock : html_content' = generate_html(arg_articles, updated_at)
  /\ UNCHANGED arg_articles
  /\ UNCHANGED <<mainVars, textVars, pageVars>>

\* ----------------------------------------------------------------- the page

\* The page as the browser loads it: the buttons with their active class, the
\* cards with style.display unset.
LoadPage(document) ==
  LET cards == SelectSeq(document.main, LAMBDA el : el.tag = "article")
  IN  [ buttons |-> [b \in 1..Len(document.filters) |->
                       [data_source |-> document.filters[b].data_source,
                        active      |-> document.filters[b].active]],
        cards   |-> [c \in 1..Len(cards) |->
                       [data_source |-> cards[c].data_source, display |-> ""]],
        clicked |-> 0 ]

\* The documents a successful run writes: every feed fetched and parsed, at
\* least one article.
WrittenDocuments ==
  { generate_html(SortByRecency(Articles(e1, FEEDS[1]) \o Articles(e2, FEEDS[2])
                                  \o Articles(e3, FEEDS[3])), now) :
      e1 \in EntrySeqs, e2 \in EntrySeqs, e3 \in EntrySeqs, now \in Clock }

PageIdle == page = [buttons |-> <<>>, cards |-> <<>>, clicked |-> 0]

PageInit ==
  \E document \in WrittenDocuments :
    /\ document.main # <<EmptyMessage>>
    /\ page = LoadPage(document)

\* A click handler that marks its button active and leaves the others as they are.
ClickKeepsActive(b) ==
  LET source == page.buttons[b].data_source
  IN  /\ page' =
           [ buttons |-> [k \in 1..Len(page.buttons) |->
                            [page.buttons[k] EXCEPT !.active = (@ \/ k = b)]],
             cards   |-> [c \in 1..Len(page.cards) |->
                            [page.cards[c] EXCEPT !.display =
                               IF source = "all" \/ page.cards[c].data_source = source
                               THEN "" ELSE "none"]],
             clicked |-> b ]
      /\ UNCHANGED <<mainVars, textVars, renderVars>>

\* The click handler of button b.
Click(b) ==
  LET source == page.buttons[b].data_source
  IN  /\ page' =
           [ buttons |-> [k \in 1..Len(page.buttons) |->
                            [page.buttons[k] EXCEPT !.active = (k = b)]],
             cards   |-> [c \in 1..Len(page.cards) |->
                            [page.cards[c] EXCEPT !.display =
                               IF source = "all" \/ page.cards[c].data_source = source
                               THEN "" ELSE "none"]],
             clicked |-> b ]
      /\ UNCHANGED <<mainVars, textVars, renderVars>>

ClickButton == \E b \in 1..Len(page.buttons) : Click(b)

\* ------------------------------------------------------- the specifications

vars == <<mainVars, textVars, renderVars, pageVars>>

\* A run of main.
Init == MainInit /\ TextIdle /\ RenderIdle /\ PageIdle

Next ==
  \/ MainStart
  \/ FetchFeedOk
  \/ FetchFeedFailed
  \/ MainEmpty
  \/ MainWrite

Spec == Init /\ [][Next]_vars

\* strip_html and the summary on every bounded raw summary.
InitText == MainInit /\ TextInit /\ RenderIdle /\ PageIdle

NextText ==
  \/ CallStripHtml
  \/ CallStripHtmlAgain
  \/ CallSummary

SpecText == InitText /\ [][NextText]_vars

\* truncate on every bounded plain text and max_len.
InitTruncate == MainInit /\ TruncateInit /\ RenderIdle /\ PageIdle

NextTruncate == CallTruncate

SpecTruncate == InitTruncate /\ [][NextTruncate]_vars

\* generate_html on the articles of every bounded entry.
InitRender == MainInit /\ TextIdle /\ RenderInit /\ PageIdle

NextRender == CallGenerateHtml

SpecRender == InitRender /\ [][NextRender]_vars

\* The filter script on every written page.
InitPage == MainInit /\ TextIdle /\ RenderIdle /\ PageInit

NextPage == ClickButton

SpecPage == InitPage /\ [][NextPage]_vars

\* ------------------------------------------------------- claims: the run

Terminated == pc \in {"exit0", "exit1"}

\* How often x occurs in seq.
Count(seq, x) == Cardinality({ i \in 1..Len(seq) : seq[i] = x })

\* The articles of the aggregate that carry the slug of feed k.
FromFeed(k) == SelectSeq(all_articles, LAMBDA a : a.source_slug = FEEDS[k].slug)

\* The articles of the first max_items entries feed k returned, in its order.
FirstEntries(k) ==
  [i \in 1..Min(FEEDS[k].max_items, Len(raw[k].entries)) |->
     Article(raw[k].entries[i], FEEDS[k])]

\* FromFeed(k) holds the articles of FirstEntries(k), each as often.
SameArticles(k) ==
  /\ Len(FromFeed(k)) = Len(FirstEntries(k))
  /\ \A i \in 1..Len(FirstEntries(k)) :
       Count(FromFeed(k), FirstEntries(k)[i]) = Count(FirstEntries(k), FirstEntries(k)[i])

Written == index_html # PriorContent

C2_EmptyAggregateIsFatal ==
  /\ (Terminated /\ all_articles = <<>>) =>
       /\ exit_code # 0
       /\ stderr # <<>>
       /\ stderr[Len(stderr)] = [line |-> "Error: No articles fetched from any source."]
       /\ ~Written
  /\ Written => (all_articles # <<>> /\ exit_code = 0)
  /\ pc = "exit1" => all_articles = <<>>

\* C2's case: one feed failed, the others parsed and had no entry, the run ended.
C2_Witness ==
  /\ pc = "exit1"
  /\ ~raw[1].ok
  /\ raw[2].ok /\ raw[2].entries = <<>>
  /\ raw[3].ok

\* C3: of each parsed feed the aggregate holds the articles of the first
\* max_items entries and no other, in the feed's order before the sort; the
\* written page has one card per such article.
C3_FirstMaxItemsOnly ==
  \A k \in 1..Len(raw) :
    raw[k].ok =>
      /\ Len(FromFeed(k)) <= FEEDS[k].max_items
      /\ SameArticles(k)
      /\ pc = "fetch" => FromFeed(k) = FirstEntries(k)
      /\ Written =>
           [i \in 1..Len(index_html.main) |-> index_html.main[i].datetime]
             = [i \in 1..Len(all_articles) |-> all_articles[i].date]

\* C3's case: the first feed (max_items 1) returned an older entry and then the
\* most recent one; the page was written without the second.
C3_Witness ==
  /\ pc = "exit0"
  /\ raw[1].ok /\ Len(raw[1].entries) = 2
  /\ Article(raw[1].entries[1], FEEDS[1]).sort_key < 0
  /\ Article(raw[1].entries[2], FEEDS[1]).sort_key > 0
  /\ \A i \in 1..Len(index_html.main) :
       index_html.main[i].data_source = FEEDS[1].slug =>
         index_html.main[i].datetime # Article(raw[1].entries[2], FEEDS[1]).date

\* The per-feed results of the run, concatenated in registry order.
RECURSIVE ConcatUpTo(_)
ConcatUpTo(k) ==
  IF k = 0 THEN <<>>
  ELSE ConcatUpTo(k - 1) \o (IF raw[k].ok THEN FirstEntries(k) ELSE <<>>)

\* final is concat reordered by a permutation that puts the keys in descending
\* order and keeps the order of records with equal keys.
IsStableSortOf(final, concat) ==
  /\ Len(final) = Len(concat)
  /\ \E p \in Permutations(1..Len(concat)) :
       /\ \A i \in 1..Len(final) : final[i] = concat[p[i]]
       /\ \A i, j \in 1..Len(final) :
            i < j => \/ final[i].sort_key > final[j].sort_key
                     \/ final[i].sort_key = final[j].sort_key /\ p[i] < p[j]

\* C4: the final sequence is the concatenation of the per-feed sequences in
\* registry order, sorted by recency key descending, records of equal key in
\* their concatenation order.
C4_StableSortDescending ==
  pc = "exit0" => IsStableSortOf(all_articles, ConcatUpTo(Len(FEEDS)))

\* C4's case: a later feed's record overtook an earlier feed's, and two records
\* of different feeds with one key kept their order.
C4_Witness ==
  /\ pc = "exit0"
  /\ Len(all_articles) = 3
  /\ all_articles[1].source_slug = FEEDS[2].slug
  /\ all_articles[2].source_slug = FEEDS[3].slug
  /\ all_articles[3].source_slug = FEEDS[1].slug
  /\ all_articles[1].sort_key = all_articles[2].sort_key
  /\ all_articles[2].sort_key > all_articles[3].sort_key

\* C5: an entry with neither time gets the empty date and key 0, and in the
\* final sequence every undated record comes after every dated record whose
\* key is not zero.
C5_UndatedSortLast ==
  /\ \A k \in 1..Len(raw) :
       raw[k].ok => \A i \in 1..Len(FirstEntries(k)) :
         ~HasDate(raw[k].entries[i]) =>
           FirstEntries(k)[i].date = <<>> /\ FirstEntries(k)[i].sort_key = 0
  /\ pc = "exit0" =>
       \A i, j \in 1..Len(all_articles) :
         ( /\ all_articles[i].date = <<>>
           /\ all_articles[j].date # <<>>
           /\ all_articles[j].sort_key # 0 ) => j < i

\* --------------------------------------------- claims: the text functions

\* The text holds a tag: "<", one or more tokens other than ">", then ">".
HasTag(s) == \E i \in 1..Len(s) : s[i] = "<" /\ TagEnd(SubSeq(s, i, Len(s))) >= 3

\* The text holds a space at an offset before max_len.
SpaceBeforeCut == \E j \in 1..Min(max_len, Len(text)) : text[j] = " "

\* C6: for a text longer than max_len (200 by default) with a space before
\* offset max_len, truncate returns a prefix of the text that ends where a
\* space follows, then "...", at most max_len + 3 characters in all.
C6_TruncateAtWordBoundary ==
  (call = "truncate" /\ Len(text) > max_len /\ SpaceBeforeCut) =>
    LET n == Len(result) - 3
    IN  /\ n >= 0
        /\ SubSeq(result, n + 1, n + 3) = <<".", ".", ".">>
        /\ SubSeq(result, 1, n) = SubSeq(text, 1, n)
        /\ n < max_len
        /\ text[n + 1] = " "
        /\ Len(result) <= max_len + 3

\* C6's case: a text longer than the default 200 characters whose cut falls
\* inside a word, truncated before that word.
C6_Witness ==
  /\ call = "truncate"
  /\ max_len = DefaultMaxLen
  /\ Len(text) > max_len
  /\ SpaceBeforeCut
  /\ text[max_len] # " " /\ text[max_len + 1] # " "
  /\ Len(result) - 3 < max_len - 1

\* C7: strip_html applied to what strip_html returned returns it unchanged.
C7_StripHtmlIdempotent ==
  call = "strip_html again" => result = text

\* C10: the summary of an article record holds no tag, whatever the raw
\* summary, character references of tags included.
C10_SummaryHasNoMarkup ==
  call = "summary" => ~HasTag(result)

\* ------------------------------------------------- claims: the renderer

\* No token of the text is a character with a meaning in HTML.
Inert(s) == \A j \in 1..Len(s) : s[j] \notin {"<", ">", "&", "\"", "'"}

\* The card shows the article's text: inert as written, and read back by the
\* browser as the feed supplied it.
ShowsAsText(shown, supplied) == Inert(shown) /\ Unescape(shown) = supplied

\* C8: on every card the title, the summary, the link and the source name are
\* escaped: none of their characters is markup in the document, and each reads
\* back as the text the feed supplied.
C8_FeedTextEscaped ==
  (html_content.updated # "" /\ arg_articles # <<>>) =>
    /\ Len(html_content.main) = Len(arg_articles)
    /\ \A i \in 1..Len(arg_articles) :
         LET card == html_content.main[i]
             a == arg_articles[i]
         IN  /\ ShowsAsText(card.title, a.title)
             /\ ShowsAsText(card.summary, a.summary)
             /\ ShowsAsText(card.href, a.link)
             /\ ShowsAsText(SubSeq(card.badge, 3, Len(card.badge)), a.source_name)

\* C8's case: a title and a link of markup characters, rendered as references.
C8_Witness ==
  /\ html_content.updated # ""
  /\ Len(arg_articles) = 1
  /\ arg_articles[1].title = <<"<">>
  /\ arg_articles[1].link = <<"\"">>
  /\ arg_articles[1].summary = <<"&">>
  /\ html_content.main[1].title = <<"&lt;">>
  /\ html_content.main[1].href = <<"&quot;">>

\* ----------------------------------------------------- claims: the page

ActiveButtons == { k \in 1..Len(page.buttons) : page.buttons[k].active }

VisibleCards == { c \in 1..Len(page.cards) : page.cards[c].display = "" }

\* C9: before any click only "All" is active and every card is visible; after
\* clicks exactly the button clicked last is active and the visible cards are
\* those of its slug, every card for "All".
C9_FilterShowsSelectedSource ==
  /\ Cardinality(ActiveButtons) = 1
  /\ page.clicked = 0 =>
       /\ \A k \in ActiveButtons : page.buttons[k].data_source = "all"
       /\ VisibleCards = 1..Len(page.cards)
  /\ page.clicked # 0 =>
       /\ ActiveButtons = {page.clicked}
       /\ VisibleCards =
            { c \in 1..Len(page.cards) :
                \/ page.buttons[page.clicked].data_source = "all"
                \/ page.cards[c].data_source = page.buttons[page.clicked].data_source }

\* C9's case: a feed's button clicked on a page with cards of it and of others.
C9_Witness ==
  /\ page.clicked # 0
  /\ page.buttons[page.clicked].data_source # "all"
  /\ VisibleCards # {}
  /\ VisibleCards # 1..Len(page.cards)

====
